---- MODULE Spec2Model ----
(***************************************************************************)
(* Resume parser and ranker (src/App.py): text extraction from uploaded    *)
(* documents, skill / name extraction, keyword-overlap scoring and the     *)
(* ranking of the collected records.                                       *)
(*                                                                         *)
(* A Python str is a sequence of one-character strings.                    *)
(***************************************************************************)
EXTENDS Integers, Sequences, FiniteSets

VARIABLES
  pc,               \* position of the Streamlit script run
  nlp,              \* the module-level nlp (line 52)
  uploaded_files,   \* st.file_uploader value (line 216)
  job_description,  \* st.text_area value (line 229)
  job_keywords,     \* line 245
  results,          \* line 254
  resume_text,      \* line 262, of the latest loop iteration
  warnings,         \* the st.warning / st.error calls made so far
  indexer,          \* the argsort computed inside sort_values (line 301)
  ranked_df,        \* lines 301-311
  call              \* a direct call of one function: its arguments and result

vars == << pc, nlp, uploaded_files, job_description, job_keywords, results,
           resume_text, warnings, indexer, ranked_df, call >>

\* None: a value that is no str
None == << "None" >>

\* ------------------------------------------------------------------------
\* Characters and str operations
\* ------------------------------------------------------------------------

\* The characters of the model, in code point order.
ASCII ==
  << "\t", "\n", " ", "%", "(", ")", "+", ",", "-", ".", "/", "0", "1", "2", "3", "4",
  "5", "6", "7", "8", "9", "@", "A", "B", "C", "D", "E", "F", "G", "H", "I",
  "J", "K", "L", "M", "N", "O", "P", "Q", "R", "S", "T", "U", "V", "W", "X",
  "Y", "Z", "_", "a", "b", "c", "d", "e", "f", "g", "h", "i", "j", "k", "l",
  "m", "n", "o", "p", "q", "r", "s", "t", "u", "v", "w", "x", "y", "z", "|" >>

Chars == { ASCII[k] : k \in DOMAIN ASCII }

ord == [ c \in Chars |-> CHOOSE k \in DOMAIN ASCII : ASCII[k] = c ]

UpperCase ==
  { "A", "B", "C", "D", "E", "F", "G", "H", "I", "J", "K", "L", "M",
    "N", "O", "P", "Q", "R", "S", "T", "U", "V", "W", "X", "Y", "Z" }

LowerCase ==
  { "a", "b", "c", "d", "e", "f", "g", "h", "i", "j", "k", "l", "m",
    "n", "o", "p", "q", "r", "s", "t", "u", "v", "w", "x", "y", "z" }

Digits == { "0", "1", "2", "3", "4", "5", "6", "7", "8", "9" }

WhiteSpace == { " ", "\n", "\t" }

\* \w of the re module
WordChars == UpperCase \cup LowerCase \cup Digits \cup { "_" }

\* the position of "a" in ASCII minus the position of "A"
char_lower == [ c \in Chars |-> IF c \in UpperCase THEN ASCII[ord[c] + 27] ELSE c ]

\* str.lower()
lower(s) == [ k \in DOMAIN s |-> char_lower[s[k]] ]

Range(s) == { s[k] : k \in DOMAIN s }

\* s < t or s = t in Python's ordering of str (by code point, a prefix first)
str_le(s, t) ==
  \E k \in 1..(Len(s) + 1) :
    /\ \A j \in 1..(k - 1) : j <= Len(t) /\ s[j] = t[j]
    /\ \/ k = Len(s) + 1
       \/ k <= Len(t) /\ ord[s[k]] < ord[t[k]]

\* the bijections of 1..n
Perms(n) == { p \in [1..n -> 1..n] : \A a, b \in 1..n : p[a] = p[b] => a = b }

\* sorted(xs) for a list of str
sorted(xs) ==
  LET n  == Len(xs)
      p  == CHOOSE q \in Perms(n) :
              \A a \in 1..(n - 1) : str_le(xs[q[a]], xs[q[a + 1]])
  IN  [ k \in 1..n |-> xs[p[k]] ]

\* ------------------------------------------------------------------------
\* Configuration (lines 12-27)
\* ------------------------------------------------------------------------

TARGET_SKILLS ==
  << <<"p","y","t","h","o","n">>,
     <<"j","a","v","a">>,
     <<"c","+","+">>,
     <<"j","a","v","a","s","c","r","i","p","t">>,
     <<"s","q","l">>,
     <<"n","o","s","q","l">>,
     <<"m","o","n","g","o","d","b">>,
     <<"p","o","s","t","g","r","e","s","q","l">>,
     <<"a","w","s">>,
     <<"a","z","u","r","e">>,
     <<"g","c","p">>,
     <<"d","o","c","k","e","r">>,
     <<"k","u","b","e","r","n","e","t","e","s">>,
     <<"g","i","t">>,
     <<"j","i","r","a">>,
     <<"a","g","i","l","e">>,
     <<"s","c","r","u","m">>,
     <<"m","a","c","h","i","n","e"," ","l","e","a","r","n","i","n","g">>,
     <<"d","e","e","p"," ","l","e","a","r","n","i","n","g">>,
     <<"n","l","p">>,
     <<"n","a","t","u","r","a","l"," ","l","a","n","g","u","a","g","e"," ","p","r","o","c","e","s","s","i","n","g">>,
     <<"d","a","t","a"," ","a","n","a","l","y","s","i","s">>,
     <<"d","a","t","a"," ","s","c","i","e","n","c","e">>,
     <<"p","a","n","d","a","s">>,
     <<"n","u","m","p","y">>,
     <<"s","c","i","k","i","t","-","l","e","a","r","n">>,
     <<"t","e","n","s","o","r","f","l","o","w">>,
     <<"p","y","t","o","r","c","h">>,
     <<"r","e","a","c","t">>,
     <<"a","n","g","u","l","a","r">>,
     <<"v","u","e">>,
     <<"n","o","d","e",".","j","s">>,
     <<"f","l","a","s","k">>,
     <<"d","j","a","n","g","o">>,
     <<"p","r","o","j","e","c","t"," ","m","a","n","a","g","e","m","e","n","t">>,
     <<"c","o","m","m","u","n","i","c","a","t","i","o","n">>,
     <<"t","e","a","m","w","o","r","k">>,
     <<"p","r","o","b","l","e","m"," ","s","o","l","v","i","n","g">> >>

\* ------------------------------------------------------------------------
\* extract_skills (lines 153-167)
\* ------------------------------------------------------------------------

\* whether position p of s (1-based) holds a \w character; outside s: no
is_word_at(s, p) == p \in DOMAIN s /\ s[p] \in WordChars

\* \b between s[p-1] and s[p]
word_boundary(s, p) == is_word_at(s, p - 1) # is_word_at(s, p)

\* re.search(r'\b' + re.escape(word) + r'\b', s): re.escape makes every
\* character of word match itself
re_search_word(word, s) ==
  \E p \in 1..(Len(s) - Len(word) + 1) :
    /\ word_boundary(s, p)
    /\ SubSeq(s, p, p + Len(word) - 1) = word
    /\ word_boundary(s, p + Len(word))

\* list.append in place of set.add
set_add_list(found, x) == Append(found, x)

\* set.add (line 166), the set held as a list without duplicates

set_add(found, x) == IF x \in Range(found) THEN found ELSE Append(found, x)

\* the loop of lines 158-166: found_skills after the first k entries
RECURSIVE found_skills(_, _, _)
found_skills(text_lower, skills_list, k) ==
  IF k = 0 THEN << >>
  ELSE LET found       == found_skills(text_lower, skills_list, k - 1)
           skill       == skills_list[k]
           skill_lower == lower(skill)
       IN  IF re_search_word(skill_lower, text_lower)
           THEN set_add(found, skill)
           ELSE found

\* list(a_set): the elements of the set, each once, in an order Python does
\* not specify
list_of_set(found) ==
  { [ k \in 1..Len(found) |-> found[p[k]] ] : p \in Perms(Len(found)) }

\* the lists extract_skills(text, skills_list) may return
extract_skills(text, skills_list) ==
  list_of_set(found_skills(lower(text), skills_list, Len(skills_list)))

\* ------------------------------------------------------------------------
\* Direct calls of extract_skills, over every text and several vocabularies
\* ------------------------------------------------------------------------

MaxTextLen == 4

SkillChars == { "j", "s", "J", "+", " " }

\* every str over SkillChars of at most MaxTextLen characters
SkillTexts == UNION { [1..n -> SkillChars] : n \in 0..MaxTextLen }

\* vocabularies: a word, a longer word holding it, entries that end in or
\* hold a non-word character, an entry in upper case, a repeated entry
SkillLists ==
  { << <<"j">>, <<"j","s">> >>,
    << <<"j","+">>, <<"j">> >>,
    << <<"j","+","s">>, <<"s">> >>,
    << <<"j"," ","s">>, <<"j">> >>,
    << <<"J">>, <<"j","s">> >>,
    << <<"J","s">>, <<"j","s">>, <<"J","s">> >>,
    << <<"j">>, <<"s">>, <<"j">> >> }

\* the variables of the script run, untouched by a direct call
NoRun ==
  /\ pc = "idle"
  /\ nlp = None
  /\ uploaded_files = << >>
  /\ job_description = << >>
  /\ job_keywords = << >>
  /\ results = << >>
  /\ resume_text = None
  /\ warnings = << >>
  /\ indexer = << >>
  /\ ranked_df = << >>

run_vars == << pc, nlp, uploaded_files, job_description, job_keywords, results,
               resume_text, warnings, indexer, ranked_df >>

InitSkills ==
  /\ NoRun
  /\ \E t \in SkillTexts, v \in SkillLists :
       call = [ fn |-> "extract_skills", text |-> t, skills_list |-> v,
                returned |-> FALSE, ret |-> << >> ]

ReturnSkills ==
  /\ call.fn = "extract_skills"
  /\ ~call.returned
  /\ \E r \in extract_skills(call.text, call.skills_list) :
       call' = [ call EXCEPT !.returned = TRUE, !.ret = r ]
  /\ UNCHANGED run_vars

NextSkills == ReturnSkills

SpecSkills == InitSkills /\ [][NextSkills]_vars

\* S occurs in T, ignoring case, at position p
occurs_at(S, T, p) == SubSeq(lower(T), p, p + Len(S) - 1) = lower(S)

\* S occurs in T at p as a whole word: the characters next to the occurrence
\* are non-word characters or the ends of T
whole_word_at(S, T, p) ==
  /\ occurs_at(S, T, p)
  /\ p = 1 \/ T[p - 1] \notin WordChars
  /\ p + Len(S) > Len(T) \/ T[p + Len(S)] \notin WordChars

Positions(S, T) == 1..(Len(T) - Len(S) + 1)

SkillsReturned == call.fn = "extract_skills" /\ call.returned

\* C3: every vocabulary entry that the text contains as a case-insensitive
\* whole word (delimited by non-word characters or the ends of the text) is
\* in the result of extract_skills.
C3_WholeWordIsFound ==
  SkillsReturned =>
    \A k \in DOMAIN call.skills_list :
      LET S == call.skills_list[k]
      IN  (\E p \in Positions(S, call.text) : whole_word_at(S, call.text, p))
            => S \in Range(call.ret)

\* C4: a vocabulary entry that occurs in the text, but never as a whole
\* word (every occurrence is part of a longer word), is not in the result of
\* extract_skills.
C4_PartOfWordIsNotFound ==
  SkillsReturned =>
    \A k \in DOMAIN call.skills_list :
      LET S == call.skills_list[k]
      IN  ( /\ \E p \in Positions(S, call.text) : occurs_at(S, call.text, p)
            /\ \A p \in Positions(S, call.text) : ~whole_word_at(S, call.text, p) )
            => S \notin Range(call.ret)

\* C9: the result of extract_skills holds no element twice, and every
\* element of it is an entry of the vocabulary, spelled as the vocabulary
\* spells it.
C9_DeduplicatedSubset ==
  SkillsReturned =>
    /\ \A a, b \in DOMAIN call.ret : call.ret[a] = call.ret[b] => a = b
    /\ \A a \in DOMAIN call.ret :
         \E k \in DOMAIN call.skills_list : call.ret[a] = call.skills_list[k]

\* a vocabulary that lists an entry twice and spells it in upper case, all
\* of whose entries are found
C9_Witness ==
  /\ SkillsReturned
  /\ call.skills_list = << <<"J","s">>, <<"j","s">>, <<"J","s">> >>
  /\ Len(call.ret) = 2

\* ------------------------------------------------------------------------
\* extract_name (lines 138-151)
\* ------------------------------------------------------------------------

\* len(name.split()): the number of maximal runs of non-whitespace
split_len(name) ==
  Cardinality({ p \in DOMAIN name :
                  /\ name[p] \notin WhiteSpace
                  /\ p = 1 \/ name[p - 1] \in WhiteSpace })

\* line 143: the texts of the entities labelled PERSON, in the order of
\* doc.ents
RECURSIVE person_names(_)
person_names(ents) ==
  IF ents = << >> THEN << >>
  ELSE IF Head(ents).label_ = "PERSON"
       THEN << Head(ents).text >> \o person_names(Tail(ents))
       ELSE person_names(Tail(ents))

\* the test of line 148 with >= 1 for > 1
is_multi_word_any(name) == split_len(name) >= 1

\* the test of line 148

is_multi_word(name) == split_len(name) > 1

\* lines 147-151, on doc.ents = nlp_model(text).ents
extract_name(ents) ==
  LET names == person_names(ents)
      multi == { k \in DOMAIN names : is_multi_word(names[k]) }
  IN  IF multi # {}
      THEN names[CHOOSE k \in multi : \A j \in multi : k <= j]
      ELSE IF names # << >> THEN names[1] ELSE None

\* Direct calls of extract_name, over the entity lists the recognizer may give

MaxEnts == 3

SpanTexts ==
  { <<"J">>, <<"J"," ","D">>, <<"D","\n","J">>, <<"D"," ">> }

Entities == [ text : SpanTexts, label_ : { "PERSON", "ORG" } ]

EntLists == UNION { [1..n -> Entities] : n \in 0..MaxEnts }

InitName ==
  /\ NoRun
  /\ \E e \in EntLists :
       call = [ fn |-> "extract_name", ents |-> e, returned |-> FALSE,
                ret |-> None ]

ReturnName ==
  /\ call.fn = "extract_name"
  /\ ~call.returned
  /\ call' = [ call EXCEPT !.returned = TRUE, !.ret = extract_name(call.ents) ]
  /\ UNCHANGED run_vars

NextName == ReturnName

SpecName == InitName /\ [][NextName]_vars

NameReturned == call.fn = "extract_name" /\ call.returned

\* the positions of the PERSON entities in doc.ents
PersonAt(ents) == { k \in DOMAIN ents : ents[k].label_ = "PERSON" }

\* the number of whitespace-separated tokens of a span
RECURSIVE Tokens(_)
Tokens(s) ==
  IF s = << >> THEN 0
  ELSE IF Head(s) \in WhiteSpace THEN Tokens(Tail(s))
  ELSE IF Len(s) = 1 \/ s[2] \in WhiteSpace THEN 1 + Tokens(Tail(s))
  ELSE Tokens(Tail(s))

\* C8: extract_name returns the first PERSON span that has more than one
\* whitespace-separated token; when no PERSON span has more than one token,
\* the first PERSON span; when there is no PERSON span, None.
C8_FirstMultiTokenPerson ==
  NameReturned =>
    LET ents   == call.ents
        people == PersonAt(ents)
        multi  == { k \in people : Tokens(ents[k].text) > 1 }
    IN  /\ multi # {} =>
             \E k \in multi : /\ \A j \in multi : k <= j
                              /\ call.ret = ents[k].text
        /\ (multi = {} /\ people # {}) =>
             \E k \in people : /\ \A j \in people : k <= j
                               /\ call.ret = ents[k].text
        /\ people = {} => call.ret = None

\* a one-token PERSON span comes first, an ORG span with two tokens next,
\* and a two-token PERSON span last
C8_Witness ==
  /\ NameReturned
  /\ Len(call.ents) = 3
  /\ call.ents[1] = [ text |-> <<"J">>, label_ |-> "PERSON" ]
  /\ call.ents[2] = [ text |-> <<"J"," ","D">>, label_ |-> "ORG" ]
  /\ call.ents[3] = [ text |-> <<"D","\n","J">>, label_ |-> "PERSON" ]
  /\ call.ret = <<"D","\n","J">>

\* ------------------------------------------------------------------------
\* Text extraction (lines 66-114)
\* ------------------------------------------------------------------------

\* An uploaded file is [name, opens, parts]: opens tells whether the reader
\* (PyPDF2.PdfReader, docx.Document) accepts the bytes, parts are the pages
\* or paragraphs, each its text or Raises when reading it raises.
Raises == << "Raises" >>

\* the parts read before the first one that raises
read_parts(parts) ==
  LET bad == { k \in DOMAIN parts : parts[k] = Raises }
  IN  IF bad = {} THEN parts
      ELSE SubSeq(parts, 1, (CHOOSE k \in bad : \A j \in bad : k <= j) - 1)

reader_raises(file) ==
  ~file.opens \/ \E k \in DOMAIN file.parts : file.parts[k] = Raises

\* lines 73-78: pages without text add nothing
RECURSIVE pdf_text(_)
pdf_text(pages) ==
  IF pages = << >> THEN << >>
  ELSE (IF Head(pages) # << >> THEN Head(pages) \o << "\n" >> ELSE << >>)
         \o pdf_text(Tail(pages))

\* lines 91-93
RECURSIVE docx_text(_)
docx_text(paragraphs) ==
  IF paragraphs = << >> THEN << >>
  ELSE Head(paragraphs) \o << "\n" >> \o docx_text(Tail(paragraphs))

\* lines 66-82: the text returned and the warnings shown
extract_text_from_pdf(file) ==
  [ text     |-> IF file.opens THEN pdf_text(read_parts(file.parts)) ELSE << >>,
    warnings |-> IF reader_raises(file) THEN << "Could not read PDF" >> ELSE << >> ]

\* lines 84-97
extract_text_from_docx(file) ==
  [ text     |-> IF file.opens THEN docx_text(read_parts(file.parts)) ELSE << >>,
    warnings |-> IF reader_raises(file) THEN << "Could not read DOCX" >> ELSE << >> ]

\* os.path.splitext(name)[1] for a name without directory separators: from
\* the last dot, unless only dots come before it
splitext_ext(name) ==
  LET dots == { k \in DOMAIN name : name[k] = "." }
  IN  IF dots = {} THEN << >>
      ELSE LET dotIndex == CHOOSE k \in dots : \A j \in dots : j <= k
           IN  IF \E j \in 1..(dotIndex - 1) : name[j] # "."
               THEN SubSeq(name, dotIndex, Len(name))
               ELSE << >>

\* lines 99-114
extract_text(uploaded_file) ==
  LET file_extension == lower(splitext_ext(uploaded_file.name))
  IN  IF file_extension = << ".", "p", "d", "f" >>
      THEN extract_text_from_pdf(uploaded_file)
      ELSE IF file_extension = << ".", "d", "o", "c", "x" >>
      THEN extract_text_from_docx(uploaded_file)
      ELSE [ text |-> << >>, warnings |-> << "Unsupported file type" >> ]

\* Direct calls of extract_text_from_pdf and extract_text_from_docx, over the
\* documents of at most MaxParts pages or paragraphs

MaxParts == 3

PartTexts == { << >>, <<"s","q","l">> }

Documents ==
  [ name  : { <<"x">> },
    opens : BOOLEAN,
    parts : UNION { [1..n -> PartTexts \cup { Raises }] : n \in 0..MaxParts } ]

InitExtract ==
  /\ NoRun
  /\ \E f \in { "extract_text_from_pdf", "extract_text_from_docx" }, d \in Documents :
       call = [ fn |-> f, file |-> d, returned |-> FALSE, ret |-> None ]

ReturnExtract ==
  /\ call.fn \in { "extract_text_from_pdf", "extract_text_from_docx" }
  /\ ~call.returned
  /\ LET r == IF call.fn = "extract_text_from_pdf"
              THEN extract_text_from_pdf(call.file)
              ELSE extract_text_from_docx(call.file)
     IN  /\ call' = [ call EXCEPT !.returned = TRUE, !.ret = r.text ]
         /\ warnings' = warnings \o r.warnings
  /\ UNCHANGED << pc, nlp, uploaded_files, job_description, job_keywords,
                  results, resume_text, indexer, ranked_df >>

NextExtract == ReturnExtract

SpecExtract == InitExtract /\ [][NextExtract]_vars

ExtractReturned ==
  call.fn \in { "extract_text_from_pdf", "extract_text_from_docx" } /\ call.returned

\* C5: when the reader raises while a pdf or docx document is parsed, on
\* opening it or at a later page or paragraph, the extractor returns the
\* empty text and shows a warning.
C5_ReaderErrorGivesEmptyText ==
  (ExtractReturned /\ reader_raises(call.file)) =>
    /\ call.ret = << >>
    /\ warnings # << >>

\* ------------------------------------------------------------------------
\* extract_contact_info (lines 129-136)
\* ------------------------------------------------------------------------

\* [A-Za-z0-9._%+-]
EmailLocalChars == UpperCase \cup LowerCase \cup Digits \cup { ".", "_", "%", "+", "-" }

\* [A-Za-z0-9.-]
EmailDomainChars == UpperCase \cup LowerCase \cup Digits \cup { ".", "-" }

\* [A-Z|a-z]
EmailTldChars == UpperCase \cup LowerCase \cup { "|" }

all_in(s, from, to, class) == \A k \in from..to : s[k] \in class

\* the matches of the e-mail pattern (line 132) that start at position i, as
\* << k, e >>: the local part runs up to the "@", the domain up to the dot at
\* k, the top-level part up to e
email_matches_at(s, i) ==
  LET n   == Len(s)
      ats == { j \in (i + 1)..n : s[j] = "@" /\ all_in(s, i, j - 1, EmailLocalChars) }
  IN  IF ~word_boundary(s, i) THEN {}
      ELSE { ke \in (UNION { (j + 2)..n : j \in ats }) \X (1..n) :
               \E j \in ats :
                 /\ j + 1 < ke[1]
                 /\ all_in(s, j + 1, ke[1] - 1, EmailDomainChars)
                 /\ s[ke[1]] = "."
                 /\ ke[1] + 2 <= ke[2]
                 /\ all_in(s, ke[1] + 1, ke[2], EmailTldChars)
                 /\ word_boundary(s, ke[2] + 1) }

\* re.findall(...)[0] of line 132: the match at the leftmost start; the
\* greedy domain takes the last possible dot, the greedy top-level part the
\* longest possible run
first_email(s) ==
  LET starts == { i \in DOMAIN s : email_matches_at(s, i) # {} }
  IN  IF starts = {} THEN None
      ELSE LET i  == CHOOSE a \in starts : \A b \in starts : a <= b
               ms == email_matches_at(s, i)
               m  == CHOOSE x \in ms : \A y \in ms :
                       y[1] < x[1] \/ (y[1] = x[1] /\ y[2] <= x[2])
           IN  SubSeq(s, i, m[2])

char_at(s, p) == IF p \in DOMAIN s THEN s[p] ELSE None

\* [-.\s]
PhoneSeparators == { "-", "." } \cup WhiteSpace

digits_at(s, p, count) == \A k \in p..(p + count - 1) : char_at(s, k) \in Digits

\* the end of the match of the phone pattern (line 134) that starts at
\* position i, 0 when there is none; each optional character is taken when
\* present, and no other choice can match
phone_match_end(s, i) ==
  LET p1 == IF char_at(s, i) = "(" THEN i + 1 ELSE i
      p2 == p1 + 3
      p3 == IF char_at(s, p2) = ")" THEN p2 + 1 ELSE p2
      p4 == IF char_at(s, p3) \in PhoneSeparators THEN p3 + 1 ELSE p3
      p5 == p4 + 3
      p6 == IF char_at(s, p5) \in PhoneSeparators THEN p5 + 1 ELSE p5
  IN  IF digits_at(s, p1, 3) /\ digits_at(s, p4, 3) /\ digits_at(s, p6, 4)
      THEN p6 + 3
      ELSE 0

\* re.findall(...)[0] of line 134
first_phone(s) ==
  LET starts == { i \in DOMAIN s : phone_match_end(s, i) # 0 }
  IN  IF starts = {} THEN None
      ELSE LET i == CHOOSE a \in starts : \A b \in starts : a <= b
           IN  SubSeq(s, i, phone_match_end(s, i))

extract_contact_info(text) == << first_email(text), first_phone(text) >>

\* ------------------------------------------------------------------------
\* calculate_match_score (lines 181-187)
\* ------------------------------------------------------------------------

calculate_match_score_len(resume_skills, job_desc_keywords) ==
  Cardinality(Range(resume_skills))

calculate_match_score(resume_skills, job_desc_keywords) ==
  Cardinality(Range(resume_skills) \cap Range(job_desc_keywords))

\* ------------------------------------------------------------------------
\* Ranking (lines 299-311)
\* ------------------------------------------------------------------------

\* the row orders sort_values(by="Score", ascending=True) may produce
sort_values_ascending(scores) ==
  { p \in Perms(Len(scores)) :
      \A a, b \in DOMAIN scores : a < b => scores[p[a]] <= scores[p[b]] }

\* the row orders sort_values(by="Score", ascending=False) may produce, as
\* the list of the original row numbers: the call leaves kind at its default
\* 'quicksort', for which pandas and numpy promise no order among equal keys
sort_values(scores) ==
  { p \in Perms(Len(scores)) :
      \A a, b \in DOMAIN scores : a < b => scores[p[a]] >= scores[p[b]] }

\* reset_index(drop=True): the new index counts from 0
reset_index(rows) == [ k \in DOMAIN rows |-> [ index |-> k - 1, row |-> rows[k] ] ]

\* line 310
shift_index(df) == [ k \in DOMAIN df |-> [ df[k] EXCEPT !.index = @ + 1 ] ]

\* line 311
add_rank(df) ==
  [ k \in DOMAIN df |-> [ index |-> df[k].index, Rank |-> df[k].index, row |-> df[k].row ] ]

\* ------------------------------------------------------------------------
\* The script run (lines 38-52, 199-311)
\* ------------------------------------------------------------------------

\* line 15; the loaded model is named by it
SPACY_MODEL == << "en_core_web_sm" >>

\* st.stop() of line 49 left out: the function returns None
load_spacy_model_no_stop(outcome) ==
  IF outcome = "loaded"
  THEN [ nlp |-> SPACY_MODEL, pc |-> "sidebar", messages |-> << >> ]
  ELSE IF outcome = "OSError"
  THEN [ nlp |-> None, pc |-> "sidebar", messages |-> << "spaCy model not found" >> ]
  ELSE [ nlp |-> None, pc |-> "crashed", messages |-> << >> ]

\* lines 41-52: spacy.load returns the model, raises OSError (caught: an
\* error is shown and st.stop() ends the run), or raises something else
\* (not caught: the run ends with the exception)
load_spacy_model(outcome) ==
  IF outcome = "loaded"
  THEN [ nlp |-> SPACY_MODEL, pc |-> "sidebar", messages |-> << >> ]
  ELSE IF outcome = "OSError"
  THEN [ nlp |-> None, pc |-> "stopped", messages |-> << "spaCy model not found" >> ]
  ELSE [ nlp |-> None, pc |-> "crashed", messages |-> << >> ]

LoadOutcomes == { "loaded", "OSError", "other" }

\* the uploaded documents of the model
Files ==
  { [ name  |-> <<"a",".","p","d","f">>, opens |-> TRUE,
      parts |-> << <<"A","l"," ","B","o"," ","a","@","b",".","i","o">>, << >>,
                   <<"P","y","t","h","o","n"," ","s","q","l">> >> ],
    [ name  |-> <<"b",".","d","o","c","x">>, opens |-> TRUE,
      parts |-> << <<"c","+","+"," ","j","a","v","a","s","c","r","i","p","t">>,
                   <<"s","q","l"," ","5","5","5","-","1","2","3","-","4","5","6","7">> >> ],
    [ name  |-> <<"c",".","t","x","t">>, opens |-> TRUE,
      parts |-> << <<"s","q","l">> >> ],
    [ name  |-> <<"d",".","P","D","F">>, opens |-> FALSE, parts |-> << >> ],
    [ name  |-> <<"e",".","p","d","f">>, opens |-> TRUE,
      parts |-> << <<"d","o","c","k","e","r">>, Raises >> ] }

\* the job descriptions of the model
JobDescriptions ==
  { << >>,
    <<"P","y","t","h","o","n"," ","a","n","d"," ","S","Q","L">>,
    <<"d","o","c","k","e","r",","," ","c","+","+">>,
    <<"s","a","l","e","s">> }

MaxFiles == 3

\* the batches: at most MaxFiles of the documents, each at most once
Batches ==
  UNION { { b \in [1..n -> Files] : \A x, y \in 1..n : b[x] = b[y] => x = y } :
          n \in 0..MaxFiles }

\* what the recognizer reports for a text: nothing, or the first two tokens
\* of the text as one PERSON span
NerOutputs(text) ==
  { << >> } \cup
  { << [ text |-> SubSeq(text, 1, e), label_ |-> "PERSON" ] >> :
      e \in { x \in DOMAIN text :
                /\ text[x] \notin WhiteSpace
                /\ x = Len(text) \/ text[x + 1] \in WhiteSpace
                /\ split_len(SubSeq(text, 1, x)) = 2 } }

Init ==
  /\ pc = "start"
  /\ nlp = None
  /\ uploaded_files = << >>
  /\ job_description = << >>
  /\ job_keywords = << >>
  /\ results = << >>
  /\ resume_text = None
  /\ warnings = << >>
  /\ indexer = << >>
  /\ ranked_df = << >>
  /\ call = [ fn |-> "none" ]

\* line 52
LoadModel ==
  /\ pc = "start"
  /\ \E outcome \in LoadOutcomes :
       LET r == load_spacy_model(outcome)
       IN  /\ nlp' = r.nlp
           /\ pc' = r.pc
           /\ warnings' = warnings \o r.messages
  /\ UNCHANGED << uploaded_files, job_description, job_keywords, results,
                  resume_text, indexer, ranked_df, call >>

\* lines 212-256: the widgets give their values; when the button was
\* pressed and there are files and a job description, the keywords of the
\* job description are extracted and the loop begins
Sidebar ==
  /\ pc = "sidebar"
  /\ \E files \in Batches, jd \in JobDescriptions, process_button \in BOOLEAN :
       /\ uploaded_files' = files
       /\ job_description' = jd
       /\ IF process_button /\ files # << >> /\ jd # << >>
          THEN \E kw \in extract_skills(lower(jd), TARGET_SKILLS) :
                 /\ job_keywords' = kw
                 /\ warnings' = IF kw = << >>
                                THEN Append(warnings, "No target skills found")
                                ELSE warnings
                 /\ pc' = "loop"
          ELSE /\ pc' = "end"
               /\ UNCHANGED << job_keywords, warnings >>
  /\ UNCHANGED << nlp, results, resume_text, indexer, ranked_df, call >>

\* the literals of lines 269-270 and 287-289
ExtractionFailed == <<"E","x","t","r","a","c","t","i","o","n"," ","F","a","i","l","e","d">>

NotAvailable == <<"N","/","A">>

NotFound == <<"N","o","t"," ","F","o","u","n","d">>

\* the literals of lines 287-289 in place of those of lines 269-270
placeholder_not_found(file) ==
  [ Filename |-> file.name, Name |-> NotFound, Email |-> NotFound,
    Phone |-> NotFound, Skills_Found |-> << >>, Score |-> 0, Raw_Text |-> << >> ]

\* lines 268-271
placeholder(file) ==
  [ Filename |-> file.name, Name |-> ExtractionFailed, Email |-> NotAvailable,
    Phone |-> NotAvailable, Skills_Found |-> << >>, Score |-> 0, Raw_Text |-> << >> ]

\* lines 277-293
candidate(file, text, ents, skills_found, keywords) ==
  LET name    == extract_name(ents)
      contact == extract_contact_info(text)
      email   == contact[1]
      phone   == contact[2]
      score   == calculate_match_score(skills_found, keywords)
  IN  [ Filename     |-> file.name,
        Name         |-> IF name \notin { None, << >> } THEN name ELSE NotFound,
        Email        |-> IF email \notin { None, << >> } THEN email ELSE NotFound,
        Phone        |-> IF phone \notin { None, << >> } THEN phone ELSE NotFound,
        Skills_Found |-> sorted(skills_found),
        Score        |-> score,
        Raw_Text     |-> text ]

\* lines 259-295: one iteration of the loop. nlp(text) with nlp = None
\* raises TypeError, which nothing catches.
ProcessFile ==
  /\ pc = "loop"
  /\ Len(results) < Len(uploaded_files)
  /\ LET file == uploaded_files[Len(results) + 1]
         got  == extract_text(file)
     IN  /\ resume_text' = got.text
         /\ warnings' = warnings \o got.warnings
         /\ IF got.text = << >>
            THEN /\ results' = Append(results, placeholder(file))
                 /\ pc' = pc
            ELSE IF nlp = None
            THEN /\ pc' = "crashed"
                 /\ UNCHANGED results
            ELSE /\ \E ents \in NerOutputs(got.text),
                       skills_found \in extract_skills(got.text, TARGET_SKILLS) :
                       results' = Append(results,
                         candidate(file, got.text, ents, skills_found, job_keywords))
                 /\ pc' = pc
  /\ UNCHANGED << nlp, uploaded_files, job_description, job_keywords, indexer,
                  ranked_df, call >>

\* lines 299-311
Rank ==
  /\ pc = "loop"
  /\ Len(results) = Len(uploaded_files)
  /\ \E p \in sort_values([ k \in DOMAIN results |-> results[k].Score ]) :
       /\ indexer' = p
       /\ ranked_df' =
            add_rank(shift_index(reset_index([ k \in DOMAIN results |-> results[p[k]] ])))
  /\ pc' = "done"
  /\ UNCHANGED << nlp, uploaded_files, job_description, job_keywords, results,
                  resume_text, warnings, call >>

Next == LoadModel \/ Sidebar \/ ProcessFile \/ Rank

Spec == Init /\ [][Next]_vars

\* ------------------------------------------------------------------------
\* Properties of the script run
\* ------------------------------------------------------------------------

Min(a, b) == IF a <= b THEN a ELSE b

\* C1: every record of the results, the placeholder of a file without text
\* included, has for Score the number of skills that are both in its Skills
\* Found and in the keywords of the job description, and
\* 0 <= Score <= min(|Skills Found|, |job keywords|).
C1_ScoreIsOverlap ==
  \A k \in DOMAIN results :
    LET r == results[k]
    IN  /\ r.Score = Cardinality(Range(r.Skills_Found) \cap Range(job_keywords))
        /\ 0 <= r.Score
        /\ r.Score <= Min(Len(r.Skills_Found), Len(job_keywords))

\* a placeholder record, then a record with two skills of which one is a
\* keyword of the job description
C1_Witness ==
  /\ Len(results) = 2
  /\ results[1].Name = ExtractionFailed
  /\ Len(results[2].Skills_Found) = 2
  /\ results[2].Score = 1

\* C2: of two records with equal Score, the one uploaded earlier comes
\* earlier in the ranked output.
C2_RankingIsStable ==
  pc = "done" =>
    \A a, b \in DOMAIN indexer :
      (a < b /\ results[indexer[a]].Score = results[indexer[b]].Score)
        => indexer[a] < indexer[b]

has_extension(file) ==
  lower(splitext_ext(file.name)) \in
    { << ".", "p", "d", "f" >>, << ".", "d", "o", "c", "x" >> }

\* C6: a file with an unsupported extension, or a document whose reader
\* raises, yields a record marked extraction-failed with no skills and Score
\* 0, at whatever position of the batch; the run goes on, and ends with one
\* record per uploaded file.
C6_FailuresAreIsolated ==
  /\ \A k \in DOMAIN results :
       LET file == uploaded_files[k]
       IN  (~has_extension(file) \/ reader_raises(file)) =>
             /\ results[k].Filename = file.name
             /\ results[k].Name = ExtractionFailed
             /\ results[k].Skills_Found = << >>
             /\ results[k].Score = 0
  /\ pc = "done" =>
       /\ Len(results) = Len(uploaded_files)
       /\ \A k \in DOMAIN results : results[k].Filename = uploaded_files[k].name

\* C7: when the model failed to load, the run has halted without taking any
\* input: no text was extracted, no record made, nothing ranked.
C7_ModelFailureHalts ==
  (pc # "start" /\ nlp # SPACY_MODEL) =>
    /\ pc \in { "stopped", "crashed" }
    /\ uploaded_files = << >>
    /\ job_description = << >>
    /\ job_keywords = << >>
    /\ resume_text = None
    /\ results = << >>
    /\ ranked_df = << >>

\* the load raised OSError: the error is shown and the run is stopped
C7_Witness ==
  /\ pc = "stopped"
  /\ nlp = None
  /\ warnings = << "spaCy model not found" >>

\* how often record r occurs in the list rows
Count(rows, r) == Cardinality({ k \in DOMAIN rows : rows[k] = r })

\* C10: the ranked output holds the collected records, each as often as the
\* results hold it, with Score non-increasing from first to last, and the
\* record at position k (from 1) has Rank k.
C10_RankedOutput ==
  pc = "done" =>
    LET rows == [ k \in DOMAIN ranked_df |-> ranked_df[k].row ]
    IN  /\ Len(rows) = Len(results)
        /\ \A r \in Range(results) \cup Range(rows) : Count(rows, r) = Count(results, r)
        /\ \A k \in 1..(Len(rows) - 1) : rows[k].Score >= rows[k + 1].Score
        /\ \A k \in DOMAIN ranked_df : ranked_df[k].Rank = k

\* three records, the last uploaded with the highest Score ranked first
C10_Witness ==
  /\ pc = "done"
  /\ Len(ranked_df) = 3
  /\ indexer[1] = 3
  /\ ranked_df[1].row.Score > ranked_df[2].row.Score
  /\ ranked_df[2].row.Score > ranked_df[3].row.Score

\* ------------------------------------------------------------------------
\* The field extractors and the scorer on empty input
\* ------------------------------------------------------------------------

\* texts given to the direct calls: the empty text, blanks, an e-mail
\* address, a phone number, a skill
FieldTexts ==
  { << >>,
    <<" ">>,
    <<"a","@","b",".","i","o">>,
    <<"5","5","5","-","1","2","3","-","4","5","6","7">>,
    <<"s","q","l">> }

\* skill lists given to calculate_match_score
ScoreLists ==
  { << >>,
    << <<"s","q","l">> >>,
    << <<"d","o","c","k","e","r">>, <<"s","q","l">> >> }

\* the script run, or one direct call of extract_contact_info,
\* extract_skills or calculate_match_score
InitFields ==
  \/ Init
  \/ /\ NoRun
     /\ \/ \E t \in FieldTexts :
             call = [ fn |-> "extract_contact_info", text |-> t,
                      returned |-> FALSE, ret |-> None ]
        \/ \E t \in FieldTexts, v \in SkillLists \cup { TARGET_SKILLS } :
             call = [ fn |-> "extract_skills", text |-> t, skills_list |-> v,
                      returned |-> FALSE, ret |-> << >> ]
        \/ \E a \in ScoreLists, b \in ScoreLists :
             call = [ fn |-> "calculate_match_score", resume_skills |-> a,
                      job_desc_keywords |-> b, returned |-> FALSE, ret |-> None ]

ReturnContact ==
  /\ call.fn = "extract_contact_info"
  /\ ~call.returned
  /\ call' = [ call EXCEPT !.returned = TRUE, !.ret = extract_contact_info(call.text) ]
  /\ UNCHANGED run_vars

ReturnScore ==
  /\ call.fn = "calculate_match_score"
  /\ ~call.returned
  /\ call' = [ call EXCEPT !.returned = TRUE,
                           !.ret = calculate_match_score(call.resume_skills,
                                                         call.job_desc_keywords) ]
  /\ UNCHANGED run_vars

NextFields == Next \/ ReturnSkills \/ ReturnContact \/ ReturnScore

SpecFields == InitFields /\ [][NextFields]_vars

\* what the direct calls return on empty input: extract_contact_info('') is
\* (None, None), extract_skills('', vocabulary) is empty, and the score of an
\* empty skill list against any keywords is 0
EmptyInputCalls ==
  /\ (call.fn = "extract_contact_info" /\ call.returned /\ call.text = << >>)
       => call.ret = << None, None >>
  /\ (call.fn = "extract_skills" /\ call.returned /\ call.text = << >>)
       => call.ret = << >>
  /\ (call.fn = "calculate_match_score" /\ call.returned /\ call.resume_skills = << >>)
       => call.ret = 0

\* the latest loop iteration got the empty text from its document
EmptyTextRecord == pc \in { "loop", "crashed" } /\ resume_text = << >>

\* C11 as stated: on empty input the direct calls return (None, None), no
\* skills and 0, and the record of a document whose extracted text is empty
\* holds the 'Not Found' literal for name, e-mail and phone, with no skills
\* and Score 0; nothing raises.
C11_EmptyTextGivesNotFound ==
  /\ EmptyInputCalls
  /\ EmptyTextRecord =>
       /\ pc = "loop"
       /\ results # << >>
       /\ LET r == results[Len(results)]
          IN  /\ r.Name = NotFound
              /\ r.Email = NotFound
              /\ r.Phone = NotFound
              /\ r.Skills_Found = << >>
              /\ r.Score = 0

\* C11, amended: on empty input the direct calls return (None, None), no
\* skills and 0, and the record of a document whose extracted text is empty
\* is the placeholder: Name 'Extraction Failed', Email and Phone 'N/A', no
\* skills, Score 0 and empty Raw Text; nothing raises.
C11_EmptyTextGivesPlaceholder ==
  /\ EmptyInputCalls
  /\ EmptyTextRecord =>
       /\ pc = "loop"
       /\ results # << >>
       /\ LET r == results[Len(results)]
          IN  /\ r.Filename = uploaded_files[Len(results)].name
              /\ r.Name = ExtractionFailed
              /\ r.Email = NotAvailable
              /\ r.Phone = NotAvailable
              /\ r.Skills_Found = << >>
              /\ r.Score = 0
              /\ r.Raw_Text = << >>

\* a document with text was processed, then one whose extracted text is
\* empty
C11_Witness ==
  /\ pc = "loop"
  /\ Len(results) = 2
  /\ results[1].Raw_Text # << >>
  /\ resume_text = << >>
  /\ results[2].Score = 0

====
